---- MODULE Spec2Model ----
(***************************************************************************)
(* TraycerLite: the enhancement service (backend/src/openaiService.ts) and *)
(* the plan orchestrator (planOrchestrator.ts, in its sequential and its   *)
(* batch variant) as a state machine.                                      *)
(*                                                                         *)
(* The runtime is a single-threaded event loop: the code between two       *)
(* awaits runs atomically, so every action below is one such segment.      *)
(***************************************************************************)
EXTENDS Integers, Sequences, FiniteSets, TLC

\* ------------------------------------------------------------- bounds
\* Clock resolution: time is counted in units of 1/UnitsPerHour hour.
UnitsPerHour == 3
\* Direct enhancePhase invocations on the shared service (SpecService).
MaxCalls == 2
\* Simultaneous enhancePhase invocations in the burst (SpecBurst).
BurstCalls == 4
\* enhancePhase invocations on the shared service in SpecGate: enough for
\* three running calls, two waiters and a newcomer.
GateCalls == 6
\* enhancePhase invocations on the shared service in SpecWait: enough for
\* four calls admitted at once and a waiter, or three and two waiters.
WaitCalls == 5
\* Plans generated in the orchestrator specification (Spec).
OrchPlans == 2
\* Plans generated in the many-plans specification (SpecProcess).
ProcPlans == 4
\* Clock ticks taken in SpecService.
MaxTicks == 2
\* Words in a text given to the planner (SpecPlanner).
MaxWords == 3
\* Last instant of the orchestrator's clock, in sweep periods (SpecExpiry).
HorizonPeriods == 2

\* ---------------------------------------------------- program constants
TTL == 24 * UnitsPerHour
MAX_CONCURRENCY == 3
maxAttempts == 3
CleanupMaxAge == 1 * UnitsPerHour
SweepPeriod == 1 * UnitsPerHour

Max(a, b) == IF a >= b THEN a ELSE b

Calls == 1 .. Max(Max(Max(MaxCalls, BurstCalls), GateCalls), ProcPlans)
Plans == 1 .. Max(OrchPlans, ProcPlans)
\* Plan p's background run owns service instance p; the directly driven
\* service of SpecService is instance 1.
Services == Plans

\* --------------------------------------------------------------- text
\* A task text: its words in lower case, whether it is written in upper
\* case and whether it carries surrounding blanks.
Bodies == { <<"cli", "tool">>, <<"rest", "api">>, <<"sdk">> }
TaskTexts == [words : Bodies, upper : BOOLEAN, pad : BOOLEAN]

ToLowerCase(t) == [t EXCEPT !.upper = FALSE]
Trim(t) == [t EXCEPT !.pad = FALSE]

\* input.includes(phrase) for a lower-case phrase: the phrase's words occur
\* next to each other, in a text that is not in upper case.
HasPhrase(ws, ph) ==
  \E i \in 0 .. (Len(ws) - Len(ph)) :
    \A j \in 1 .. Len(ph) : ws[i + j] = ph[j]

\* The keywords that are part of a longer word of the texts.
Inside(w) == IF w = "nodejs" THEN {"node"} ELSE {}

Includes(t, ph) ==
  /\ ~t.upper
  /\ IF Len(ph) = 1
       THEN \E i \in DOMAIN t.words :
              t.words[i] = ph[1] \/ ph[1] \in Inside(t.words[i])
       ELSE HasPhrase(t.words, ph)

\* new RegExp('\\b' + keyword + '\\b', 'i').test(input): the keyword is a
\* word of the text, in either case.
WordMatch(t, kw) == \E i \in DOMAIN t.words : t.words[i] = kw

\* The texts given to the planner and the analyzer: up to MaxWords words.
PlannerWords ==
  {"context", "api", "rest", "endpoint", "backend", "server", "react", "node",
   "nodejs", "login", "database", "blog", "tool", "sdk", "frontend", "loan",
   "app", "express"}

PlannerBodies ==
  UNION {[1 .. n -> PlannerWords] : n \in 0 .. MaxWords}

PlannerTexts == [words : PlannerBodies, upper : BOOLEAN, pad : {FALSE}]

IncludesAny(t, phs) == \E ph \in phs : Includes(t, ph)

\* File paths are represented by their rank in lexicographic order.
Paths == 1 .. 2
FileLists == {<<1, 2>>, <<2, 1>>, <<1>>}

RECURSIVE Insert(_, _)
Insert(x, s) ==
  IF s = <<>> THEN <<x>>
  ELSE IF x <= Head(s) THEN <<x>> \o s
  ELSE <<Head(s)>> \o Insert(x, Tail(s))

RECURSIVE Sort(_)
Sort(s) == IF s = <<>> THEN <<>> ELSE Insert(Head(s), Sort(Tail(s)))

Range(s) == {s[i] : i \in DOMAIN s}

\* sha256 is taken as injective: the digest is represented by its input.
GenerateCacheKey_Unsorted(task, phaseName, files) ==
  <<Trim(ToLowerCase(task)), phaseName, files>>

GenerateCacheKey(task, phaseName, files) ==
  <<Trim(ToLowerCase(task)), phaseName, Sort(files)>>

\* ------------------------------------------------------ model replies
\* What a chat completion answers: it throws, it has no content, or it is
\* a text. A text is an optional JSON object (body) and what surrounds or
\* breaks it: prose before the first brace (pre), text after the last brace
\* (post), a markdown fence (tight: the closing fence follows the brace,
\* loose: a newline separates them), a trailing comma inside the object.
\* The object is described by what validateResponse looks at.
Clean == [pre |-> FALSE, post |-> FALSE, fence |-> "none", comma |-> FALSE]
Wraps ==
  { Clean,
    [Clean EXCEPT !.pre = TRUE],
    [Clean EXCEPT !.post = TRUE],
    [Clean EXCEPT !.fence = "tight"],
    [Clean EXCEPT !.fence = "loose"],
    [Clean EXCEPT !.comma = TRUE] }

\* A text without any brace.
NoJson == [descr |-> "nojson", arch |-> FALSE, files |-> "none"]
\* An object of the full schema, and one whose files lack a path.
FullObject == [descr |-> "str", arch |-> TRUE, files |-> "full"]
FullBadFiles == [descr |-> "str", arch |-> TRUE, files |-> "bad"]
\* Objects of the simplified schema: as asked for, with a number for the
\* description, without any field, with a files value that is no array.
SimpleObject == [descr |-> "str", arch |-> FALSE, files |-> "simple"]
SimpleNumber == [descr |-> "num", arch |-> FALSE, files |-> "simple"]
EmptyObject == [descr |-> "none", arch |-> FALSE, files |-> "none"]
SimpleNoArray == [descr |-> "str", arch |-> FALSE, files |-> "notarray"]

Text(w, b) == [kind |-> "text", wrap |-> w, body |-> b]
Throws == [kind |-> "throw", wrap |-> Clean, body |-> NoJson]
Empty == [kind |-> "empty", wrap |-> Clean, body |-> NoJson]

Replies ==
  { Throws, Empty, Text(Clean, NoJson) }
  \cup { Text(w, FullObject) : w \in Wraps }
  \cup { Text(Clean, b) : b \in {FullBadFiles, SimpleObject, SimpleNumber,
                                 EmptyObject, SimpleNoArray} }
  \cup { Text([Clean EXCEPT !.comma = TRUE], b) : b \in {SimpleObject, SimpleNumber} }

\* JSON.parse of the whole reply text succeeds.
IsValidJsonText(r) ==
  /\ r.kind = "text"
  /\ r.body # NoJson
  /\ r.wrap = Clean

\* ---------------------------------------------------------- responses
\* An OpenAIEnhancementResponse, by origin and by the fields validation
\* reads: the description/reasoning strings, the architecture and
\* implementation objects, the files array.
Response(src, descr, arch, files) ==
  [src |-> src, descr |-> descr, arch |-> arch, files |-> files]

NoResponse == Response("none", "none", FALSE, "none")

validateResponse(resp) ==
  /\ resp.descr = "str"
  /\ resp.arch
  /\ resp.files \in {"full", "phase", "empty"}

createFallbackResponse == Response("fallback", "str", TRUE, "phase")

\* convertSimpleToFullResponse: the description is kept when truthy, the
\* architecture and implementation are fixed text, each file keeps its own
\* path and details; a truthy files value that is no array makes map throw.
ConvertThrows(body) == body.files = "notarray"

convertSimpleToFullResponse(body) ==
  Response("simple",
           IF body.descr = "none" THEN "str" ELSE body.descr,
           TRUE,
           CASE body.files = "none" -> "empty"
             [] body.files \in {"full", "simple"} -> "full"
             [] OTHER -> "bad")

\* A main attempt: trim, drop the fences, drop the prose before the first
\* brace, require the text to end with a brace, parse, validate.
MainParsed(r) ==
  /\ r.kind = "text"
  /\ r.body # NoJson
  /\ ~r.wrap.post
  /\ r.wrap.fence # "loose"
  /\ ~r.wrap.comma

MainAccepts(r) == MainParsed(r) /\ validateResponse(Response("main", r.body.descr, r.body.arch, r.body.files))

\* The repair call: the text between the first and the last brace is
\* parsed and validated.
RepairAccepts(r) ==
  /\ r.kind = "text"
  /\ r.body # NoJson
  /\ ~r.wrap.comma
  /\ validateResponse(Response("repair", r.body.descr, r.body.arch, r.body.files))

\* The simplified-schema call: the text between the first and the last
\* brace, with trailing commas removed by cleanJsonString, is parsed and
\* converted; nothing validates the conversion's result.
SimpleAccepts(r) ==
  /\ r.kind = "text"
  /\ r.body # NoJson
  /\ ~ConvertThrows(r.body)


\* -------------------------------------------------------------- state
VARIABLES
  now,            \* Date.now(), in clock units
  ticks,          \* clock ticks taken so far
  client,         \* client[s]: service s was constructed with an API key
  cache,          \* cache[s]: the entries of service s's cache map
  activeRequests, \* activeRequests[s]
  requestQueue,   \* requestQueue[s]: the waiting calls, oldest first
  call,           \* call[c]: one enhancePhase invocation
  variant,        \* the orchestrator in use: "sequential" or "batch"
  planLimit,      \* how many plans the environment asks for
  nextPlan,       \* the next PlanEnhancementState object to be created
  planStates,     \* planStates[h]: the state object registered for hash h
  state,          \* state[p]: PlanEnhancementState object p
  run,            \* run[p]: where object p's enhancePlanAsync stands
  nextSweep,      \* when the cleanup timer fires next
  status,         \* the last answer of GET /plan-status
  probe           \* the last call of a pure function: its input and result

svcVars == <<client, cache, activeRequests, requestQueue, call>>
orchVars == <<variant, planLimit, nextPlan, planStates, state, run, nextSweep, status>>
vars == <<now, ticks, svcVars, orchVars, probe>>

\* ------------------------------------------------- enhancement service
NoKey == <<>>

\* pc: idle (not invoked), passed (waitForSlot returned, the await has not
\* resumed), queued (parked in requestQueue), released (its resolver was
\* called, the await has not resumed), main / repair / simple (that model
\* call is in flight), perfDone (performEnhancement has returned),
\* resolved, rejected.
\* nModel (model calls issued), ident, priorFresh, waited (it was parked
\* in the queue), tStart (when it was invoked) and tEnd (when it settled)
\* record the call's history.
IdleCall ==
  [pc |-> "idle", svc |-> 1, key |-> NoKey, attempts |-> 0,
   response |-> NoResponse, nModel |-> 0,
   ident |-> NoKey, priorFresh |-> FALSE, waited |-> FALSE,
   tStart |-> 0, tEnd |-> 0]

InFlight(c) == call[c].pc \in {"main", "repair", "simple"}

\* Model calls in flight on service s, and in the whole process.
InFlightOn(s) == Cardinality({c \in Calls : InFlight(c) /\ call[c].svc = s})

\* The entry enhancePhase answers from: present and younger than its ttl.
CacheHit_Inclusive(s, key) ==
  {e \in cache[s] : e.key = key /\ now - e.timestamp <= e.ttl}

CacheHit(s, key) ==
  {e \in cache[s] : e.key = key /\ now - e.timestamp < e.ttl}

\* waitForSlot: through at once when a slot is free, parked otherwise.
waitForSlot_Inverted(s) ==
  IF activeRequests[s] >= MAX_CONCURRENCY THEN "passed" ELSE "queued"

waitForSlot(s) ==
  IF activeRequests[s] < MAX_CONCURRENCY THEN "passed" ELSE "queued"

\* What the claims call the same request: normalized task, phase name and
\* the set of file paths.
Ident(task, phaseName, files) ==
  <<Trim(ToLowerCase(task)), phaseName, Range(files)>>

\* enhancePhase from its entry to its first await.
StartRec(s, hasClient, task, phaseName, files) ==
  LET key == GenerateCacheKey(task, phaseName, files)
      id == Ident(task, phaseName, files)
      hit == CacheHit(s, key)
      fresh == \E d \in Calls :
                 /\ call[d].pc = "resolved"
                 /\ call[d].nModel > 0
                 /\ call[d].svc = s
                 /\ call[d].ident = id
                 /\ now - call[d].tEnd < TTL
      base == [IdleCall EXCEPT !.svc = s, !.key = key, !.ident = id,
                               !.priorFresh = fresh, !.tStart = now]
  IN  IF ~hasClient
        THEN [base EXCEPT !.pc = "rejected"]
      ELSE IF hit # {}
        THEN [base EXCEPT !.pc = "resolved",
                          !.response = (CHOOSE e \in hit : TRUE).response,
                          !.tEnd = now]
      ELSE [base EXCEPT !.pc = waitForSlot(s),
                        !.waited = (waitForSlot(s) = "queued")]

QueueAfterStart(q, c, rec) ==
  IF rec.pc = "queued" THEN [q EXCEPT ![rec.svc] = Append(@, c)] ELSE q

\* The await of waitForSlot resumes: the slot is taken and the first main
\* attempt's model call goes out.
Admit(c) ==
  /\ call[c].pc \in {"passed", "released"}
  /\ activeRequests' = [activeRequests EXCEPT ![call[c].svc] = @ + 1]
  /\ call' = [call EXCEPT ![c].pc = "main", ![c].attempts = 0,
                          ![c].nModel = @ + 1]
  /\ UNCHANGED <<probe, now, ticks, client, cache, requestQueue, orchVars>>

\* After a failed main attempt: the simplified call once the attempts are
\* used up, the repair call after the last attempt but one, the next
\* attempt otherwise.
AfterFailure_RepairAlways(attempts) ==
  IF attempts >= maxAttempts THEN "simple" ELSE "repair"

AfterFailure(attempts) ==
  IF attempts >= maxAttempts THEN "simple"
  ELSE IF attempts = maxAttempts - 1 THEN "repair"
  ELSE "main"

\* A main attempt's model call ends.
MainReply(c, r) ==
  /\ call[c].pc = "main"
  /\ call' = [call EXCEPT ![c] =
       IF MainAccepts(r)
         THEN [@ EXCEPT
                 !.pc = "perfDone", !.attempts = 0,
                 !.response = Response("main", r.body.descr, r.body.arch, r.body.files)]
         ELSE [@ EXCEPT
                 !.attempts = @ + 1,
                 !.pc = AfterFailure(call[c].attempts + 1),
                 !.nModel = @ + 1]]
  /\ UNCHANGED <<probe, now, ticks, client, cache, activeRequests, requestQueue, orchVars>>

\* The repair call ends: its answer is returned when it validates, and the
\* loop goes on to the last main attempt otherwise.
RepairReply(c, r) ==
  /\ call[c].pc = "repair"
  /\ call' = [call EXCEPT ![c] =
       IF RepairAccepts(r)
         THEN [@ EXCEPT
                 !.pc = "perfDone", !.attempts = 0,
                 !.response = Response("repair", r.body.descr, r.body.arch, r.body.files)]
         ELSE [@ EXCEPT !.pc = "main", !.nModel = @ + 1]]
  /\ UNCHANGED <<probe, now, ticks, client, cache, activeRequests, requestQueue, orchVars>>

\* The simplified-schema call ends: its converted answer is returned, or
\* the local fallback when nothing could be parsed or converted.
SimpleReply(c, r) ==
  /\ call[c].pc = "simple"
  /\ call' = [call EXCEPT ![c] =
       [@ EXCEPT
          !.pc = "perfDone", !.attempts = 0,
          !.response = IF SimpleAccepts(r)
                         THEN convertSimpleToFullResponse(r.body)
                         ELSE createFallbackResponse]]
  /\ UNCHANGED <<probe, now, ticks, client, cache, activeRequests, requestQueue, orchVars>>

\* processQueue, run with n requests active: the oldest waiter is released
\* when there is one and a slot is free.
Releases_OnlyFromFull(s, n) ==
  Len(requestQueue[s]) > 0 /\ n = MAX_CONCURRENCY - 1

Releases(s, n) == Len(requestQueue[s]) > 0 /\ n < MAX_CONCURRENCY

\* The finally block's activeRequests--, run whatever performEnhancement
\* ended with.
SlotsAfter_Leak(c) ==
  IF call[c].response.src = "fallback"
    THEN activeRequests[call[c].svc]
    ELSE activeRequests[call[c].svc] - 1

SlotsAfter(c) == activeRequests[call[c].svc] - 1

\* enhancePhase after performEnhancement: the response is cached, the slot
\* is given back, processQueue runs, the caller's promise resolves.
Finish(c) ==
  LET s == call[c].svc
      n == SlotsAfter(c)
      entry == [key |-> call[c].key, response |-> call[c].response,
                timestamp |-> now, ttl |-> TTL]
  IN  /\ call[c].pc = "perfDone"
      /\ cache' = [cache EXCEPT ![s] =
                     {e \in @ : e.key # call[c].key} \cup {entry}]
      /\ activeRequests' = [activeRequests EXCEPT ![s] = n]
      /\ IF Releases(s, n)
           THEN /\ requestQueue' = [requestQueue EXCEPT ![s] = Tail(@)]
                /\ call' = [call EXCEPT ![c].pc = "resolved", ![c].tEnd = now,
                                        ![Head(requestQueue[s])].pc = "released"]
           ELSE /\ requestQueue' = requestQueue
                /\ call' = [call EXCEPT ![c].pc = "resolved", ![c].tEnd = now]
      /\ UNCHANGED <<probe, now, ticks, client, orchVars>>

\* A caller outside the orchestrator invokes enhancePhase on service 1.
Invoke(c, task, phaseName, files) ==
  LET rec == StartRec(1, client[1], task, phaseName, files)
  IN  /\ call[c].pc = "idle"
      /\ \A d \in Calls : d < c => call[d].pc # "idle"
      /\ call' = [call EXCEPT ![c] = rec]
      /\ requestQueue' = QueueAfterStart(requestQueue, c, rec)
      /\ UNCHANGED <<probe, now, ticks, client, cache, activeRequests, orchVars>>

\* Time passes between two events on the service.
TickService(d) ==
  /\ ticks < MaxTicks
  /\ now' = now + d
  /\ ticks' = ticks + 1
  /\ UNCHANGED <<probe, svcVars, orchVars>>

\* ------------------------------------------------------------ planner
ProjectTypeKeywords ==
  << <<"web-app", {<<"app">>, <<"website">>, <<"dashboard">>, <<"platform">>,
                   <<"portal">>, <<"web", "app">>, <<"webapp">>}>>,
     <<"api", {<<"api">>, <<"rest">>, <<"endpoint">>, <<"service">>,
               <<"backend">>, <<"server">>}>>,
     <<"cli", {<<"command">>, <<"terminal">>, <<"cli">>, <<"tool">>,
               <<"script">>, <<"command", "line">>}>>,
     <<"library", {<<"library">>, <<"package">>, <<"module">>, <<"sdk">>,
                   <<"framework">>}>>,
     <<"fullstack", {<<"full">>, <<"fullstack">>, <<"full-stack">>,
                     <<"complete">>, <<"full", "stack">>}>> >>

RestPhrases ==
  {<<"rest", "api">>, <<"backend", "api">>, <<"server", "api">>, <<"rest", "endpoint">>}

\* One row of the generic keyword table matches the text; the bare word
\* "api" counts only inside one of the REST phrases.
TypeRowMatches(t, row) ==
  \E kw \in row[2] :
    IF row[1] = "api" /\ kw = <<"api">>
      THEN IncludesAny(t, RestPhrases)
      ELSE Includes(t, kw)

detectProjectType(t) ==
  IF \/ Includes(t, <<"frontend">>) /\ Includes(t, <<"backend">>)
     \/ Includes(t, <<"react">>) /\ Includes(t, <<"node">>)
     \/ Includes(t, <<"frontend">>) /\ Includes(t, <<"node">>)
     \/ IncludesAny(t, {<<"fullstack">>, <<"full-stack">>, <<"full", "stack">>})
    THEN "fullstack"
  ELSE IF IncludesAny(t, {<<"context", "api">>, <<"react">>, <<"component">>})
    THEN "web-app"
  ELSE IF IncludesAny(t, {<<"library">>, <<"package">>, <<"module">>, <<"sdk">>,
                          <<"framework">>})
    THEN "library"
  ELSE IF \E i \in 1 .. Len(ProjectTypeKeywords) :
            TypeRowMatches(t, ProjectTypeKeywords[i])
    THEN ProjectTypeKeywords[
           CHOOSE i \in 1 .. Len(ProjectTypeKeywords) :
             /\ TypeRowMatches(t, ProjectTypeKeywords[i])
             /\ \A j \in 1 .. (i - 1) : ~TypeRowMatches(t, ProjectTypeKeywords[j])][1]
  ELSE "web-app"

\* The feature tables the phase list depends on.
FeatureKeywords(f) ==
  CASE f = "auth" ->
         {<<"auth">>, <<"login">>, <<"signup">>, <<"user">>, <<"account">>,
          <<"register">>, <<"authentication">>, <<"authorization">>}
    [] f = "database" ->
         {<<"database">>, <<"data">>, <<"store">>, <<"persist">>, <<"sql">>,
          <<"postgres">>, <<"mysql">>, <<"mongodb">>, <<"db">>}
    [] f = "api" ->
         {<<"rest", "api">>, <<"rest", "endpoint">>, <<"backend", "api">>,
          <<"server", "api">>, <<"api", "endpoint">>, <<"graphql">>, <<"routes">>,
          <<"express">>, <<"fastify">>, <<"backend">>, <<"node">>, <<"nodejs">>,
          <<"server">>}
    [] f = "fastapi" ->
         {<<"fastapi">>, <<"fast", "api">>, <<"python", "api">>,
          <<"python", "backend">>, <<"uvicorn">>}
    [] f = "frontend" ->
         {<<"frontend">>, <<"ui">>, <<"interface">>, <<"react">>, <<"component">>,
          <<"vue">>, <<"angular">>, <<"context", "api">>, <<"state", "management">>}
    [] f = "fintech" ->
         {<<"fintech">>, <<"financial">>, <<"banking">>, <<"loan">>, <<"credit">>,
          <<"mortgage">>, <<"investment">>, <<"trading">>, <<"crypto">>,
          <<"blockchain">>, <<"payment", "processing">>, <<"compliance">>,
          <<"audit">>, <<"transaction">>}
    [] f = "ecommerce" ->
         {<<"ecommerce">>, <<"e-commerce">>, <<"shopping">>, <<"retail">>,
          <<"inventory">>, <<"catalog">>, <<"cart">>, <<"checkout">>}

\* detectFeatures: a keyword with a blank is looked for as a phrase, a
\* single word as a whole word.
FeatureHit(t, kw) ==
  IF Len(kw) > 1 THEN Includes(t, kw) ELSE WordMatch(t, kw[1])

PhaseFeatures == {"auth", "database", "api", "fastapi", "frontend", "fintech", "ecommerce"}

\* detectFeatures on the lower-cased text, for the features above.
detectFeatures_NoSkip(t) ==
  LET contextApi == Includes(t, <<"context", "api">>)
      early == IF contextApi \/ Includes(t, <<"state", "management">>)
                 THEN {"frontend"} ELSE {}
      table == {f \in PhaseFeatures :
                  \E kw \in FeatureKeywords(f) : FeatureHit(t, kw)}
      rest == IF IncludesAny(t, {<<"rest", "api">>, <<"rest", "endpoint">>,
                                 <<"backend", "api">>, <<"server", "api">>})
                THEN {"api"} ELSE {}
  IN  early \cup table \cup rest

detectFeatures(t) ==
  LET contextApi == Includes(t, <<"context", "api">>)
      early == IF contextApi \/ Includes(t, <<"state", "management">>)
                 THEN {"frontend"} ELSE {}
      table == {f \in PhaseFeatures :
                  /\ ~(f = "api" /\ "frontend" \in early /\ contextApi)
                  /\ \E kw \in FeatureKeywords(f) : FeatureHit(t, kw)}
      rest == IF IncludesAny(t, {<<"rest", "api">>, <<"rest", "endpoint">>,
                                 <<"backend", "api">>, <<"server", "api">>})
                THEN {"api"} ELSE {}
  IN  early \cup table \cup rest

analyzeTask_NoAuthDatabase(input) ==
  LET lowerInput == ToLowerCase(input)
      projectType == detectProjectType(lowerInput)
      features == detectFeatures(lowerInput)
  IN  [projectType |-> projectType,
       features |-> features,
       hasAuth |-> "auth" \in features,
       hasDatabase |-> \/ "database" \in features
                       \/ projectType \in {"web-app", "fullstack"},
       hasFrontend |-> \/ "frontend" \in features
                       \/ projectType \in {"web-app", "fullstack"},
       hasBackend |-> \/ features \cap {"api", "fastapi", "auth", "fintech", "ecommerce"} # {}
                      \/ projectType \in {"api", "fullstack"}
                      \/ Includes(input, <<"backend">>)
                      \/ /\ projectType = "web-app"
                         /\ \/ "database" \in features
                            \/ IncludesAny(input, {<<"blog">>, <<"posts">>, <<"comments">>})]

\* analyzeTask: the type and the features are read from the lower-cased
\* text, the words backend, blog, posts, comments from the text as given.
analyzeTask(input) ==
  LET lowerInput == ToLowerCase(input)
      projectType == detectProjectType(lowerInput)
      features == detectFeatures(lowerInput)
  IN  [projectType |-> projectType,
       features |-> features,
       hasAuth |-> "auth" \in features,
       hasDatabase |-> \/ "database" \in features
                       \/ "auth" \in features
                       \/ projectType \in {"web-app", "fullstack"},
       hasFrontend |-> \/ "frontend" \in features
                       \/ projectType \in {"web-app", "fullstack"},
       hasBackend |-> \/ features \cap {"api", "fastapi", "auth", "fintech", "ecommerce"} # {}
                      \/ projectType \in {"api", "fullstack"}
                      \/ Includes(input, <<"backend">>)
                      \/ /\ projectType = "web-app"
                         /\ \/ "database" \in features
                            \/ IncludesAny(input, {<<"blog">>, <<"posts">>, <<"comments">>})]

generatePhases_FrontendFirst(analysis) ==
  <<"phase-setup">>
  \o (IF analysis.hasDatabase THEN <<"phase-database">> ELSE <<>>)
  \o (IF analysis.hasAuth THEN <<"phase-auth">> ELSE <<>>)
  \o (IF analysis.hasFrontend THEN <<"phase-frontend">> ELSE <<>>)
  \o (IF analysis.hasBackend THEN <<"phase-backend">> ELSE <<>>)
  \o <<"phase-testing">>

generatePhases(analysis) ==
  <<"phase-setup">>
  \o (IF analysis.hasDatabase THEN <<"phase-database">> ELSE <<>>)
  \o (IF analysis.hasAuth THEN <<"phase-auth">> ELSE <<>>)
  \o (IF analysis.hasBackend THEN <<"phase-backend">> ELSE <<>>)
  \o (IF analysis.hasFrontend THEN <<"phase-frontend">> ELSE <<>>)
  \o <<"phase-testing">>

planTask(task) == generatePhases(analyzeTask(task))

\* The dependencies each generate*Phase function gives its phase.
PhaseDependencies(id, analysis) ==
  CASE id = "phase-setup" -> {}
    [] id = "phase-database" -> {"phase-setup"}
    [] id = "phase-auth" -> {"phase-setup", "phase-database"}
    [] id = "phase-backend" ->
         IF analysis.hasDatabase THEN {"phase-database"} ELSE {"phase-setup"}
    [] id = "phase-frontend" ->
         IF analysis.hasBackend THEN {"phase-backend"} ELSE {"phase-setup"}
    [] id = "phase-testing" ->
         IF analysis.hasFrontend THEN {"phase-frontend"}
         ELSE IF analysis.hasBackend THEN {"phase-backend"}
         ELSE {"phase-setup"}

\* plan(task).phases, each phase by its id and its dependencies.
PlanPhases(task) ==
  LET analysis == analyzeTask(task)
      ids == generatePhases(analysis)
  IN  [i \in 1 .. Len(ids) |->
         [id |-> ids[i], dependencies |-> PhaseDependencies(ids[i], analysis)]]

NoProbe == [fn |-> "none"]

\* planTask(task) is called, once in a behaviour.
PlanTask(t) ==
  /\ probe = NoProbe
  /\ probe' = [fn |-> "planTask", task |-> t,
               analysis |-> analyzeTask(t), phases |-> PlanPhases(t)]
  /\ UNCHANGED <<now, ticks, svcVars, orchVars>>

\* planTask tabulated over the task texts.
PlanOf == [t \in TaskTexts |-> planTask(t)]

PhaseName(id) ==
  CASE id = "phase-setup" -> "Project Setup & Architecture"
    [] id = "phase-database" -> "Database Design & Setup"
    [] id = "phase-auth" -> "Authentication System"
    [] id = "phase-backend" -> "Backend API Development"
    [] id = "phase-frontend" -> "Frontend Development"
    [] id = "phase-testing" -> "Testing & Quality Assurance"

\* The file manifest of a phase, its paths by rank.
PhaseFiles(id) == <<2, 1>>


\* ---------------------------------------------------- decision engine
\* Scores and confidences are counted in hundredths. Every value that
\* occurs is a multiple of 0.05, so Math.round(confidence * 100) / 100
\* leaves it as it is.
Min(a, b) == IF a <= b THEN a ELSE b

Add(cond, n) == IF cond THEN n ELSE 0

\* The analyses the engine is given: the features its rules read, the
\* flags analyzeTask derives from the features, and a complexity that the
\* number of features allows (at most 2 for simple, at most 5 for medium).
EngineFeatures == {"auth", "payment", "realtime", "api"}

FeatureCount(a) ==
  Cardinality(a.features)
  + Add(a.hasFintech, 1) + Add(a.hasHealthcare, 1)
  + Add(a.hasEcommerce, 1) + Add(a.hasFastAPI, 1)

Analyses ==
  {a \in [features : SUBSET EngineFeatures,
          complexity : {"simple", "medium", "complex"},
          hasAuth : BOOLEAN, hasRealtime : BOOLEAN,
          hasFintech : BOOLEAN, hasHealthcare : BOOLEAN, hasEcommerce : BOOLEAN,
          hasFrontend : BOOLEAN, hasFastAPI : BOOLEAN] :
     /\ a.hasAuth = ("auth" \in a.features)
     /\ a.hasRealtime = ("realtime" \in a.features)
     /\ a.complexity = "simple" => FeatureCount(a) <= 2
     /\ a.complexity = "medium" => FeatureCount(a) <= 5}

sqlScore(a) ==
  Min(Add("auth" \in a.features, 30) + Add("payment" \in a.features, 40)
      + Add(a.complexity = "complex", 30) + Add(a.hasAuth, 20)
      + Add(a.hasFintech, 80) + Add(a.hasHealthcare, 70) + Add(a.hasEcommerce, 50),
      100)

nosqlScore(a) ==
  Max(0,
      Min(Add("realtime" \in a.features, 30) + Add("analytics" \in a.features, 40)
          + Add(a.complexity = "simple", 30) + Add(a.hasRealtime, 20)
          - Add(a.hasFintech, 60) - Add(a.hasHealthcare, 50),
          100))

\* In double arithmetic 0.7 - 0.5 is 0.19999999999999996, below 0.2; every
\* other score difference that occurs compares as it does in decimals.
BelowInDoubles(x, y) == <<x, y>> = <<70, 50>>

calculateDatabaseConfidence(a, isSQL, baseConfidence) ==
  LET x == sqlScore(a)
      y == nosqlScore(a)
      scoreDifference == IF x >= y THEN x - y ELSE y - x
      confidence ==
        baseConfidence
        + Add(a.hasFintech /\ isSQL, 20)
        + Add(a.hasHealthcare /\ isSQL, 15)
        + Add(a.hasEcommerce /\ isSQL, 10)
        + Add(a.hasAuth /\ isSQL, 10)
        + Add("payment" \in a.features /\ isSQL, 15)
        + Add(a.complexity = "complex" /\ isSQL, 10)
        - Add(a.hasFintech /\ ~isSQL, 30)
        - Add(a.hasHealthcare /\ ~isSQL, 25)
        + (IF scoreDifference > 50 THEN 10
           ELSE IF scoreDifference < 20 \/ BelowInDoubles(x, y) THEN -10
           ELSE 0)
  IN  Max(10, Min(95, confidence))

analyzeDatabase(a) ==
  LET isSQL == sqlScore(a) > nosqlScore(a)
      baseConfidence == Max(sqlScore(a), nosqlScore(a))
  IN  [recommendation |-> IF isSQL THEN "PostgreSQL" ELSE "MongoDB",
       confidence |-> calculateDatabaseConfidence(a, isSQL, baseConfidence)]

nodejsScore(a) ==
  Min(Add(a.hasFrontend /\ ~a.hasFastAPI, 40) + Add("realtime" \in a.features, 30)
      + Add(a.complexity \in {"simple", "medium"}, 30) + Add(a.hasFintech, 20),
      100)

fastapiScore(a) ==
  Min(Add(a.hasFastAPI, 50) + Add("api" \in a.features, 30)
      + Add(a.complexity = "complex", 20) + Add(a.hasFintech, 30),
      100)

calculateBackendConfidence(a, isNodeJS, baseConfidence) ==
  Max(10,
      Min(95,
          baseConfidence
          + Add(a.hasFrontend /\ isNodeJS, 15)
          + Add(a.hasFintech /\ ~isNodeJS, 10)
          + Add(a.hasRealtime /\ isNodeJS, 10)
          + Add("api" \in a.features /\ ~isNodeJS, 10)
          + Add(a.complexity = "complex" /\ ~isNodeJS, 5)
          + Add(a.hasFastAPI, 20)))

analyzeBackend(a) ==
  LET isNodeJS == nodejsScore(a) > fastapiScore(a)
      baseConfidence == Max(nodejsScore(a), fastapiScore(a))
  IN  [recommendation |-> IF isNodeJS THEN "Node.js with Express"
                          ELSE "Python with FastAPI",
       confidence |-> calculateBackendConfidence(a, isNodeJS, baseConfidence)]

\* analyzeDatabase / analyzeBackend is called, once in a behaviour.
AnalyzeDatabase(a) ==
  /\ probe = NoProbe
  /\ probe' = [fn |-> "analyzeDatabase", analysis |-> a, out |-> analyzeDatabase(a)]
  /\ UNCHANGED <<now, ticks, svcVars, orchVars>>

AnalyzeBackend(a) ==
  /\ probe = NoProbe
  /\ probe' = [fn |-> "analyzeBackend", analysis |-> a, out |-> analyzeBackend(a)]
  /\ UNCHANGED <<now, ticks, svcVars, orchVars>>


\* ------------------------------------------------------- orchestrator
\* generateTaskHash: sha256 of the lower-cased, trimmed task, taken as
\* injective.
generateTaskHash(task) == Trim(ToLowerCase(task))

Hashes == {generateTaskHash(t) : t \in TaskTexts}

NoPlan == 0

NoState ==
  [hash |-> <<>>, task |-> <<>>, phases |-> <<>>, phaseStatuses |-> <<>>,
   origin |-> <<>>, submitted |-> <<>>, current |-> 0, total |-> 0,
   isComplete |-> FALSE, startTime |-> 0, generationMethod |-> "none",
   replaced |-> NoPlan]

\* run[p]: pc is none (no background run), await (the sequential loop
\* awaits enhancePhase for phase i), batch (the batch call is awaited) or
\* done; ret is what generateCompletePlan's caller got when it returned.
Pending == [returned |-> FALSE, complete |-> FALSE, modelCallsDone |-> 0, threw |-> FALSE]

NoRun == [pc |-> "none", i |-> 0, ret |-> Pending]

\* generateCompletePlan does not await enhancePlanAsync: it attaches a
\* catch handler to the promise and returns.
AwaitsEnhancement_Awaited == TRUE

AwaitsEnhancement == FALSE

\* What the caller of generateCompletePlan observes when it returns.
Returned(st, cl, threw) ==
  [returned |-> TRUE,
   complete |-> st.isComplete,
   modelCallsDone |-> cl.nModel - (IF cl.pc \in {"main", "repair", "simple"} THEN 1 ELSE 0),
   threw |-> threw]

\* The loop body of the sequential enhancePlanAsync up to its await, for
\* phase i of object p: the phase is marked enhancing and enhancePhase runs
\* to its first await.
SeqSubmit_Progress(st, i) ==
  [st EXCEPT !.phaseStatuses[i] = "enhancing", !.submitted[i] = @ + 1,
             !.current = i]

SeqSubmit(st, i) ==
  [st EXCEPT !.phaseStatuses[i] = "enhancing", !.submitted[i] = @ + 1]

SeqCall(p, st, i, hasClient) ==
  StartRec(p, hasClient, st.task, PhaseName(st.phases[i]), PhaseFiles(st.phases[i]))

\* The batch enhancePlanAsync up to its await: every phase is marked
\* enhancing and the one batch call goes out.
BatchSubmit(st) ==
  [st EXCEPT !.phaseStatuses = [i \in 1 .. st.total |-> "enhancing"],
             !.submitted = [i \in 1 .. st.total |-> @[i] + 1]]

\* basePlan.generationMethod: planTask's 'rule-based', overwritten with
\* 'hybrid' when an API key is given.
generationMethod_Hybrid(keyed) == "hybrid"

generationMethod(keyed) == IF keyed THEN "hybrid" ELSE "rule-based"

\* generateCompletePlan(task, {apiKey}): the base plan is built, a fresh
\* state is registered under the task hash, the background enhancement is
\* started when a key is given, and the plan is returned.
GeneratePlan(task, keyed) ==
  LET p == nextPlan
      phases == PlanOf[task]
      h == generateTaskHash(task)
      fresh == [hash |-> h, task |-> task, phases |-> phases,
                phaseStatuses |-> [i \in 1 .. Len(phases) |-> "unset"],
                origin |-> [i \in 1 .. Len(phases) |-> "none"],
                submitted |-> [i \in 1 .. Len(phases) |-> 0],
                current |-> 0, total |-> Len(phases), isComplete |-> FALSE,
                startTime |-> now,
                generationMethod |-> generationMethod(keyed),
                replaced |-> IF /\ planStates[h] # NoPlan
                                /\ run[planStates[h]].pc \in {"await", "batch"}
                               THEN planStates[h] ELSE NoPlan]
      started == IF ~keyed THEN fresh
                 ELSE IF variant = "batch" THEN BatchSubmit(fresh)
                 ELSE SeqSubmit(fresh, 1)
      rec == IF keyed /\ variant = "sequential"
               THEN SeqCall(p, fresh, 1, TRUE) ELSE call[p]
      detached == ~keyed \/ ~AwaitsEnhancement
  IN  /\ nextPlan <= planLimit
      /\ nextPlan' = nextPlan + 1
      /\ planStates' = [planStates EXCEPT ![h] = p]
      /\ state' = [state EXCEPT ![p] = started]
      /\ client' = [client EXCEPT ![p] = keyed]
      /\ call' = [call EXCEPT ![p] = rec]
      /\ requestQueue' = QueueAfterStart(requestQueue, p, rec)
      /\ run' = [run EXCEPT ![p] =
           [pc |-> IF ~keyed THEN "none"
                   ELSE IF variant = "batch" THEN "batch" ELSE "await",
            i |-> IF keyed /\ variant = "sequential" THEN 1 ELSE 0,
            ret |-> IF detached THEN Returned(started, rec, FALSE) ELSE Pending]]
      /\ UNCHANGED <<probe, now, ticks, cache, activeRequests, variant, planLimit,
                     nextSweep, status>>

\* The state object the background run of object p writes to: the one
\* enhancePlanAsync read from the map when it started, in the same
\* synchronous segment as the planStates.set of generateCompletePlan.
RunState_Reread(p) ==
  IF planStates[state[p].hash] = NoPlan THEN p ELSE planStates[state[p].hash]

RunState(p) == p

\* The sequential loop after its await, for phase i: the phase is marked
\* enhanced when enhancePhase resolved (src tells where its response came
\* from) and enhancement_failed when it rejected, and progress moves to i.
SeqMark_Replace(st, i, ok, src) ==
  [st EXCEPT !.phaseStatuses =
               [j \in 1 .. st.total |->
                  IF j # i THEN "unset"
                  ELSE IF ok THEN "enhanced" ELSE "enhancement_failed"],
             !.origin[i] = IF ok THEN src ELSE "error",
             !.current = i]

SeqMark_Ahead(st, i, ok, src) ==
  [st EXCEPT !.phaseStatuses[i] =
               IF ok THEN "enhanced" ELSE "enhancement_failed",
             !.origin[i] = IF ok THEN src ELSE "error",
             !.current = i + 1]

SeqMark(st, i, ok, src) ==
  [st EXCEPT !.phaseStatuses[i] =
               IF ok THEN "enhanced" ELSE "enhancement_failed",
             !.origin[i] = IF ok THEN src ELSE "error",
             !.current = i]

\* The sequential loop resumes after enhancePhase for phase i settled: the
\* phase is marked enhanced (or enhancement_failed when the call rejected),
\* progress moves to i, and the next phase is submitted; after the last
\* phase the state is marked complete.
SeqResume(p) ==
  LET i == run[p].i
      t == RunState(p)
      st == state[t]
      ok == call[p].pc = "resolved"
      marked == SeqMark(st, i, ok, call[p].response.src)
      last == i = st.total
      after == IF last
                 THEN [marked EXCEPT !.isComplete = TRUE, !.current = st.total]
                 ELSE SeqSubmit(marked, i + 1)
      rec == IF last THEN call[p] ELSE SeqCall(p, st, i + 1, client[p])
  IN  /\ run[p].pc = "await"
      /\ call[p].pc \in {"resolved", "rejected"}
      /\ state' = [state EXCEPT ![t] = after]
      /\ call' = [call EXCEPT ![p] = rec]
      /\ requestQueue' = QueueAfterStart(requestQueue, p, rec)
      /\ run' = [run EXCEPT ![p] =
           [pc |-> IF last THEN "done" ELSE "await",
            i |-> IF last THEN i ELSE i + 1,
            ret |-> IF last /\ ~run[p].ret.returned
                      THEN Returned(after, rec, FALSE) ELSE run[p].ret]]
      /\ UNCHANGED <<probe, now, ticks, client, cache, activeRequests, variant, planLimit,
                     nextPlan, planStates, nextSweep, status>>

\* enhanceAllPhases, one call for all the phases of a plan: it resolves
\* with an array of results, one per phase or fewer, or it rejects.
BatchOutcomes == {"results", "short", "throw"}

\* batchResults[i] is there: always with "results", for the first phase
\* only with "short".
BatchResult(outcome, i) == outcome = "results" \/ (outcome = "short" /\ i = 1)

BatchStatuses_ThrowKeeps(n, outcome) ==
  [i \in 1 .. n |->
     IF outcome = "throw"
       THEN "enhancing"
       ELSE IF BatchResult(outcome, i) THEN "enhanced" ELSE "enhancement_failed"]

\* The statuses the batch enhancePlanAsync writes: the results loop marks a
\* phase 'enhanced' when its result is there and 'enhancement_failed'
\* otherwise; the catch block marks every phase 'enhancement_failed'.
BatchStatuses(n, outcome) ==
  [i \in 1 .. n |->
     IF outcome = "throw"
       THEN "enhancement_failed"
       ELSE IF BatchResult(outcome, i) THEN "enhanced" ELSE "enhancement_failed"]

\* The batch enhancePlanAsync resumes after enhanceAllPhases settled. The
\* promise it returns never rejects (the catch block swallows the error), so
\* the .catch of generateCompletePlan has nothing to do.
BatchResume(p, outcome) ==
  LET t == RunState(p)
      st == state[t]
      n == st.total
      after ==
        [st EXCEPT !.phaseStatuses = BatchStatuses(n, outcome),
                   !.origin = [i \in 1 .. n |->
                                 IF outcome # "throw" /\ BatchResult(outcome, i)
                                   THEN "batch" ELSE "error"],
                   !.current = n, !.isComplete = TRUE]
  IN  /\ run[p].pc = "batch"
      /\ state' = [state EXCEPT ![t] = after]
      /\ run' = [run EXCEPT ![p] =
           [pc |-> "done", i |-> 0,
            ret |-> IF ~run[p].ret.returned
                      THEN Returned(after, call[p], FALSE) ELSE run[p].ret]]
      /\ UNCHANGED <<probe, now, ticks, svcVars, variant, planLimit, nextPlan,
                     planStates, nextSweep, status>>

\* GET /plan-status: getPlanStatus reads the map; the route answers 404
\* "Plan not found or expired" when it finds nothing.
StatusAnswer(h) == IF planStates[h] = NoPlan THEN 404 ELSE 200

GetPlanStatus_Triggering(h) ==
  /\ status' = StatusAnswer(h)
  /\ state' = IF planStates[h] = NoPlan \/ state[planStates[h]].isComplete
                THEN state
                ELSE [state EXCEPT ![planStates[h]] = SeqSubmit(@, 1)]
  /\ UNCHANGED <<probe, now, ticks, svcVars, variant, planLimit, nextPlan, planStates,
                 run, nextSweep>>

GetPlanStatus(h) ==
  /\ status' = StatusAnswer(h)
  /\ UNCHANGED <<probe, now, ticks, svcVars, variant, planLimit, nextPlan, planStates,
                 state, run, nextSweep>>

\* cleanupOldPlans(maxAge): every registered state older than maxAge is
\* deleted from the map.
cleanupOldPlans(maxAge) ==
  [h \in Hashes |->
     IF planStates[h] # NoPlan /\ now - state[planStates[h]].startTime > maxAge
       THEN NoPlan ELSE planStates[h]]

\* The server's interval timer fires.
Sweep ==
  /\ now = nextSweep
  /\ planStates' = cleanupOldPlans(CleanupMaxAge)
  /\ nextSweep' = nextSweep + SweepPeriod
  /\ UNCHANGED <<probe, now, ticks, svcVars, variant, planLimit, nextPlan, state, run, status>>

Horizon == HorizonPeriods * SweepPeriod

\* Time passes; a due timer fires before it does.
Tick ==
  /\ now < Horizon
  /\ now < nextSweep
  /\ now' = now + 1
  /\ UNCHANGED <<probe, ticks, svcVars, orchVars>>

\* ------------------------------------------------------ specifications
InitCommon ==
  /\ probe = NoProbe
  /\ now = 0
  /\ ticks = 0
  /\ cache = [s \in Services |-> {}]
  /\ activeRequests = [s \in Services |-> 0]
  /\ requestQueue = [s \in Services |-> <<>>]
  /\ call = [c \in Calls |-> IdleCall]
  /\ nextPlan = 1
  /\ planStates = [h \in Hashes |-> NoPlan]
  /\ state = [p \in Plans |-> NoState]
  /\ run = [p \in Plans |-> NoRun]
  /\ nextSweep = SweepPeriod
  /\ status = 0

\* One service instance, driven directly by a few callers.
ServicePhaseNames == {"Project Setup & Architecture"}
ServiceTasks == {t \in TaskTexts : t.words # <<"sdk">>}

InitService ==
  /\ InitCommon
  /\ client = [s \in Services |-> s = 1]
  /\ variant = "sequential"
  /\ planLimit = 0

NextService ==
  \/ \E c \in 1 .. MaxCalls, t \in ServiceTasks, n \in ServicePhaseNames, f \in FileLists :
       Invoke(c, t, n, f)
  \/ \E c \in Calls : Admit(c)
  \/ \E c \in Calls, r \in Replies : MainReply(c, r)
  \/ \E c \in Calls, r \in Replies : RepairReply(c, r)
  \/ \E c \in Calls, r \in Replies : SimpleReply(c, r)
  \/ \E c \in Calls : Finish(c)
  \/ \E d \in {1, TTL - 1} : TickService(d)

SpecService == InitService /\ [][NextService]_vars

\* The same service when the model answers every call with a text that
\* JSON.parse rejects.
BadJsonTexts == {r \in Replies : r.kind = "text" /\ ~IsValidJsonText(r)}

NextBadJson ==
  \/ \E c \in 1 .. MaxCalls, t \in ServiceTasks, n \in ServicePhaseNames, f \in FileLists :
       Invoke(c, t, n, f)
  \/ \E c \in Calls : Admit(c)
  \/ \E c \in Calls, r \in BadJsonTexts : MainReply(c, r)
  \/ \E c \in Calls, r \in BadJsonTexts : RepairReply(c, r)
  \/ \E c \in Calls, r \in BadJsonTexts : SimpleReply(c, r)
  \/ \E c \in Calls : Finish(c)

SpecBadJson == InitService /\ [][NextBadJson]_vars

\* The same service under a burst of callers, the model answering every
\* call at once with a valid object.
NextBurst ==
  \/ \E c \in 1 .. BurstCalls, t \in ServiceTasks, n \in ServicePhaseNames, f \in FileLists :
       Invoke(c, t, n, f)
  \/ \E c \in Calls : Admit(c)
  \/ \E c \in Calls : MainReply(c, Text(Clean, FullObject))
  \/ \E c \in Calls : Finish(c)

SpecBurst == InitService /\ [][NextBurst]_vars

\* The same service with callers that come and go, the model answering
\* every call with a valid object: calls fill the slots, others wait in
\* the queue, and new ones arrive as slots are given back.
GateTasks == {t \in ServiceTasks : ~t.upper /\ ~t.pad}

NextGate ==
  \/ \E c \in 1 .. GateCalls, t \in GateTasks, n \in ServicePhaseNames :
       Invoke(c, t, n, <<1>>)
  \/ \E c \in Calls : Admit(c)
  \/ \E c \in Calls : MainReply(c, Text(Clean, FullObject))
  \/ \E c \in Calls : Finish(c)

SpecGate == InitService /\ [][NextGate]_vars

CounterTask == [words |-> <<"cli", "tool">>, upper |-> FALSE, pad |-> FALSE]

\* The same service with one request made by several callers before its
\* first answer is stored, the event loop running every continuation that
\* is ready and every model call returning.
NextWait ==
  \/ \E c \in 1 .. WaitCalls, n \in ServicePhaseNames :
       Invoke(c, CounterTask, n, <<1>>)
  \/ \E c \in Calls : Admit(c)
  \/ \E c \in Calls : MainReply(c, Text(Clean, FullObject))
  \/ \E c \in Calls : Finish(c)

WaitFairness ==
  /\ WF_vars(\E c \in Calls : Admit(c))
  /\ WF_vars(\E c \in Calls : MainReply(c, Text(Clean, FullObject)))
  /\ WF_vars(\E c \in Calls : Finish(c))

SpecWait == InitService /\ [][NextWait]_vars /\ WaitFairness

\* The same service with three running calls and a waiter, the model
\* failing or answering with a valid object.
NextCounter ==
  \/ \E c \in 1 .. BurstCalls, n \in ServicePhaseNames :
       Invoke(c, CounterTask, n, <<1>>)
  \/ \E c \in Calls : Admit(c)
  \/ \E c \in Calls, r \in {Throws, Text(Clean, FullObject)} : MainReply(c, r)
  \/ \E c \in Calls, r \in {Throws, Text(Clean, FullObject)} : RepairReply(c, r)
  \/ \E c \in Calls, r \in {Throws, Text(Clean, FullObject)} : SimpleReply(c, r)
  \/ \E c \in Calls : Finish(c)

SpecCounter == InitService /\ [][NextCounter]_vars

\* The orchestrator, in either variant, with its status route.
OrchTasks ==
  { [words |-> <<"cli", "tool">>, upper |-> FALSE, pad |-> FALSE],
    [words |-> <<"cli", "tool">>, upper |-> TRUE, pad |-> TRUE],
    [words |-> <<"sdk">>, upper |-> FALSE, pad |-> FALSE] }

ProcTasks == {t \in OrchTasks : ~t.upper}

\* The model's answers in the orchestrator's runs: a failure or a valid
\* object.
OrchReplies == { Throws, Text(Clean, FullObject) }

Init ==
  /\ InitCommon
  /\ client = [s \in Services |-> FALSE]
  /\ variant \in {"sequential", "batch"}
  /\ planLimit = OrchPlans

Next ==
  \/ \E t \in OrchTasks, keyed \in BOOLEAN : GeneratePlan(t, keyed)
  \/ \E c \in Calls : Admit(c)
  \/ \E c \in Calls, r \in OrchReplies : MainReply(c, r)
  \/ \E c \in Calls, r \in OrchReplies : RepairReply(c, r)
  \/ \E c \in Calls, r \in OrchReplies : SimpleReply(c, r)
  \/ \E c \in Calls : Finish(c)
  \/ \E p \in Plans : SeqResume(p)
  \/ \E p \in Plans, o \in BatchOutcomes : BatchResume(p, o)
  \/ \E h \in Hashes : GetPlanStatus(h)

Spec == Init /\ [][Next]_vars

\* The orchestrator's enhancement runs alone, every started step being
\* eventually taken: the event loop runs every continuation that is ready,
\* and every model call returns or fails.
NextFair ==
  \/ \E t \in ProcTasks, keyed \in BOOLEAN : GeneratePlan(t, keyed)
  \/ \E c \in Calls : Admit(c)
  \/ \E c \in Calls, r \in OrchReplies : MainReply(c, r)
  \/ \E c \in Calls, r \in OrchReplies : RepairReply(c, r)
  \/ \E c \in Calls, r \in OrchReplies : SimpleReply(c, r)
  \/ \E c \in Calls : Finish(c)
  \/ \E p \in Plans : SeqResume(p)
  \/ \E p \in Plans, o \in BatchOutcomes : BatchResume(p, o)

Fairness ==
  /\ WF_vars(\E c \in Calls : Admit(c))
  /\ WF_vars(\E c \in Calls, r \in OrchReplies : MainReply(c, r))
  /\ WF_vars(\E c \in Calls, r \in OrchReplies : RepairReply(c, r))
  /\ WF_vars(\E c \in Calls, r \in OrchReplies : SimpleReply(c, r))
  /\ WF_vars(\E c \in Calls : Finish(c))
  /\ WF_vars(\E p \in Plans : SeqResume(p))
  /\ WF_vars(\E p \in Plans, o \in BatchOutcomes : BatchResume(p, o))

SpecFair == Init /\ [][NextFair]_vars /\ Fairness

\* Many plans at once on the sequential orchestrator, the model answering
\* every call at once with a valid object.
InitProcess ==
  /\ InitCommon
  /\ client = [s \in Services |-> FALSE]
  /\ variant = "sequential"
  /\ planLimit = ProcPlans

NextProcess ==
  \/ \E t \in ProcTasks : GeneratePlan(t, TRUE)
  \/ \E c \in Calls : Admit(c)
  \/ \E c \in Calls : MainReply(c, Text(Clean, FullObject))
  \/ \E c \in Calls : Finish(c)
  \/ \E p \in Plans : SeqResume(p)

SpecProcess == InitProcess /\ [][NextProcess]_vars

\* The batch orchestrator with its clock and its cleanup timer.
InitExpiry ==
  /\ InitCommon
  /\ client = [s \in Services |-> FALSE]
  /\ variant = "batch"
  /\ planLimit = OrchPlans

NextExpiry ==
  \/ \E t \in OrchTasks, keyed \in BOOLEAN : GeneratePlan(t, keyed)
  \/ \E p \in Plans, o \in BatchOutcomes : BatchResume(p, o)
  \/ \E h \in Hashes : GetPlanStatus(h)
  \/ Sweep
  \/ Tick

SpecExpiry == InitExpiry /\ [][NextExpiry]_vars

\* The planner alone, called on every text of up to MaxWords words.
InitPlanner ==
  /\ InitCommon
  /\ client = [s \in Services |-> FALSE]
  /\ variant = "sequential"
  /\ planLimit = 0

NextPlanner == \E t \in PlannerTexts : PlanTask(t)

SpecPlanner == InitPlanner /\ [][NextPlanner]_vars

\* The decision engine alone, called on every analysis.
NextDecision ==
  \/ \E a \in Analyses : AnalyzeDatabase(a)
  \/ \E a \in Analyses : AnalyzeBackend(a)

SpecDecision == InitPlanner /\ [][NextDecision]_vars

\* ------------------------------------------------------------- claims
Started(c) == call[c].pc # "idle"

Settled(c) == call[c].pc \in {"perfDone", "resolved"}

Terminal(x) == x \in {"enhanced", "enhancement_failed"}

Rank(x) ==
  CASE x = "unset" -> 0
    [] x = "enhancing" -> 1
    [] OTHER -> 2

Age(p) == now - state[p].startTime

\* C1: under a burst of more than 3 simultaneous enhancePhase calls with
\* distinct cache keys on one service instance whose cache is empty, the
\* number of model calls in flight never exceeds the gate's maximum of 3.
C1_BurstWithinGate ==
  (\A c, d \in Calls : (c # d /\ Started(c) /\ Started(d)) => call[c].key # call[d].key)
    => InFlightOn(1) <= MAX_CONCURRENCY

\* C2: across the whole process, whatever the number of plans whose
\* background enhancement runs at the same time, the total number of model
\* calls in flight never exceeds 3.
C2_ProcessWithinGate ==
  Cardinality({c \in Calls : InFlight(c)}) <= MAX_CONCURRENCY

\* C3: an enhancePhase call made after an earlier call for the same
\* (normalized task, phase name, set of file paths) went to the model and
\* resolved, and less than the 24h TTL after that, resolves at once with
\* that call's response and makes no model call.
C3_SecondCallFromCache ==
  \A c \in Calls :
    call[c].priorFresh =>
      /\ call[c].pc = "resolved"
      /\ call[c].nModel = 0
      /\ \E d \in Calls \ {c} :
           /\ call[d].ident = call[c].ident
           /\ call[d].nModel > 0
           /\ call[d].response = call[c].response

\* A second call for the same request, made one clock unit before the TTL
\* ran out, has resolved.
C3_Witness ==
  \E c \in Calls :
    /\ call[c].priorFresh
    /\ call[c].pc = "resolved"
    /\ now = TTL - 1

\* C4: when every model call returns text that is not valid JSON,
\* enhancePhase on a service with a client resolves with the local
\* fallback, which satisfies validateResponse. The formula states what
\* this implies for every response the call settles with: it satisfies
\* validateResponse.
C4_InvalidJsonStillValid ==
  \A c \in Calls :
    /\ call[c].pc # "rejected"
    /\ Settled(c) => validateResponse(call[c].response)

\* C5: generateCompletePlan has returned as soon as the plan is
\* registered; when it returned, no model call for the plan had completed,
\* the registered state was not complete, and nothing was thrown.
C5_ReturnsBeforeModel ==
  \A p \in Plans :
    p < nextPlan =>
      /\ run[p].ret.returned
      /\ ~run[p].ret.complete
      /\ run[p].ret.modelCallsDone = 0
      /\ ~run[p].ret.threw

\* A plan generated with a key whose enhancement later ended with a phase
\* for which every model attempt failed.
C5_Witness ==
  \E p \in Plans :
    /\ run[p].pc = "done"
    /\ run[p].ret.returned
    /\ state[p].isComplete
    /\ "fallback" \in Range(state[p].origin)

\* C6: when a credential is present, the plan's state eventually has
\* isComplete = true and progress.current = progress.total, whatever the
\* model answers, given that every model call eventually returns or fails.
C6_EventuallyComplete ==
  \A p \in 1 .. OrchPlans :
    (run[p].pc # "none")
      ~> (state[p].isComplete /\ state[p].current = state[p].total)

\* Two plans generated with a key have both completed, a model call having
\* been made for the last one.
C6_Witness ==
  /\ \A p \in 1 .. OrchPlans :
       /\ run[p].pc = "done"
       /\ state[p].isComplete
       /\ state[p].current = state[p].total
  /\ call[OrchPlans].nModel > 0

\* C7: within one PlanEnhancementState a phase's status only moves forward
\* along pending -> enhancing -> enhanced or enhancement_failed, and a
\* status that is enhanced or enhancement_failed never changes again.
C7_StatusForwardOnly ==
  [][\A p \in Plans :
       \A i \in DOMAIN state[p].phaseStatuses :
         /\ Rank(state'[p].phaseStatuses[i]) >= Rank(state[p].phaseStatuses[i])
         /\ Terminal(state[p].phaseStatuses[i]) =>
              state'[p].phaseStatuses[i] = state[p].phaseStatuses[i]]_vars

\* The first phase of a plan is enhanced while its second phase is being
\* enhanced.
C7_Witness ==
  \E p \in Plans :
    /\ state[p].total >= 2
    /\ state[p].phaseStatuses[1] = "enhanced"
    /\ state[p].phaseStatuses[2] = "enhancing"

\* C8: getPlanStatus, whenever it is called, leaves the plan-state map,
\* every state, every enhancement run and the service untouched, and no
\* phase of a state is submitted for enhancement more than once.
C8_StatusIsPureRead ==
  /\ [][(\E h \in Hashes : GetPlanStatus(h)) =>
          UNCHANGED <<planStates, state, run, svcVars>>]_vars
  /\ [](\A p \in Plans :
          \A i \in DOMAIN state[p].submitted : state[p].submitted[i] <= 1)

\* A poll was answered with a state while an enhancement was under way.
C8_Witness ==
  /\ status = 200
  /\ \E p \in Plans :
       /\ run[p].pc \in {"await", "batch"}
       /\ state[p].submitted[1] = 1

\* C9: a phase for which every model attempt failed or returned unusable
\* output has the status enhancement_failed once its enhancement has
\* settled, and generateCompletePlan threw nothing.
C9_FailureSurfaces ==
  \A p \in Plans :
    /\ ~run[p].ret.threw
    /\ \A i \in DOMAIN state[p].origin :
         state[p].origin[i] \in {"fallback", "error"} =>
           state[p].phaseStatuses[i] = "enhancement_failed"

\* C10: for a registered plan state older than the max age of one hour,
\* the status route answers not-found for its hash.
C10_ExpiredNotFound ==
  \A h \in Hashes :
    (planStates[h] # NoPlan /\ Age(planStates[h]) > CleanupMaxAge)
      => StatusAnswer(h) = 404

\* C11: a plan generated without a credential is returned at once, marked
\* rule-based (hybrid exactly when a credential is given), non-empty; no
\* enhancement run and no model call exists for it, no phase is submitted,
\* and its state stays at progress.current = 0 and is never complete.
C11_NoCredentialPath ==
  \A p \in Plans :
    p < nextPlan =>
      /\ state[p].generationMethod = "hybrid" <=> client[p]
      /\ ~client[p] =>
           /\ state[p].generationMethod = "rule-based"
           /\ run[p].ret.returned /\ ~run[p].ret.threw
           /\ state[p].total >= 1
           /\ run[p].pc = "none"
           /\ call[p].pc = "idle" /\ call[p].nModel = 0
           /\ \A i \in DOMAIN state[p].submitted : state[p].submitted[i] = 0
           /\ state[p].current = 0
           /\ ~state[p].isComplete

\* A plan generated without a credential, after a plan generated with one
\* has completed, and polled.
C11_Witness ==
  /\ status = 200
  /\ \E p, q \in Plans :
       /\ q < p /\ p < nextPlan
       /\ ~client[p]
       /\ client[q] /\ state[q].isComplete

ProbeIds == [i \in DOMAIN probe.phases |-> probe.phases[i].id]

PipelineRank(id) ==
  CASE id = "phase-setup" -> 1
    [] id = "phase-database" -> 2
    [] id = "phase-auth" -> 3
    [] id = "phase-backend" -> 4
    [] id = "phase-frontend" -> 5
    [] id = "phase-testing" -> 6

\* C12: for every task, plan(task).phases is non-empty, has exactly one
\* phase-setup, first, and exactly one phase-testing, last, repeats no id,
\* and follows the order setup, database, auth, backend, frontend, testing.
C12_PhasePipeline ==
  probe.fn = "planTask" =>
    LET ids == ProbeIds
        n == Len(ids)
    IN  /\ n >= 1
        /\ ids[1] = "phase-setup"
        /\ ids[n] = "phase-testing"
        /\ Cardinality({i \in 1 .. n : ids[i] = "phase-setup"}) = 1
        /\ Cardinality({i \in 1 .. n : ids[i] = "phase-testing"}) = 1
        /\ \A i, j \in 1 .. n : i < j => PipelineRank(ids[i]) < PipelineRank(ids[j])

\* A text whose plan has all six phases, the backend before the frontend.
C12_Witness ==
  /\ probe.fn = "planTask"
  /\ Len(probe.phases) = 6
  /\ probe.task.upper

\* C13: for every task, each phase's dependencies are ids of phases that
\* occur strictly earlier in plan(task).phases; the auth phase has the
\* setup and the database phase before it.
C13_DependenciesEarlier ==
  probe.fn = "planTask" =>
    \A i \in DOMAIN probe.phases :
      /\ probe.phases[i].dependencies \subseteq {ProbeIds[j] : j \in 1 .. (i - 1)}
      /\ probe.phases[i].id = "phase-auth" =>
           {"phase-setup", "phase-database"} \subseteq {ProbeIds[j] : j \in 1 .. (i - 1)}

\* A plan with an auth phase for a text that names no database and whose
\* project type brings none.
C13_Witness ==
  /\ probe.fn = "planTask"
  /\ "phase-auth" \in Range(ProbeIds)
  /\ "database" \notin probe.analysis.features
  /\ probe.analysis.projectType \in {"cli", "library", "api"}

\* The text read without regard to case has one of the REST phrases.
HasRestPhrase(t) == IncludesAny(ToLowerCase(t), RestPhrases)

\* C14: for every text with the phrase 'context api' and none of the
\* phrases 'rest api', 'rest endpoint', 'backend api', 'server api', the
\* analysis has the frontend feature, has no api feature, and its project
\* type is not api, whatever else the text contains.
C14_ContextApiIsFrontend ==
  (/\ probe.fn = "planTask"
   /\ Includes(ToLowerCase(probe.task), <<"context", "api">>)
   /\ ~HasRestPhrase(probe.task))
    => /\ "frontend" \in probe.analysis.features
       /\ "api" \notin probe.analysis.features
       /\ probe.analysis.projectType # "api"

\* A text with 'context api' followed by a backend keyword.
C14_Witness ==
  /\ probe.fn = "planTask"
  /\ Includes(ToLowerCase(probe.task), <<"context", "api">>)
  /\ ~HasRestPhrase(probe.task)
  /\ \E w \in {"server", "express", "node", "backend"} : WordMatch(probe.task, w)

\* C15: a text without any of the phrases 'rest api', 'backend api',
\* 'server api', 'rest endpoint' gets neither the project type api nor
\* the api feature.
C15_ApiNeedsRestPhrase ==
  (probe.fn = "planTask" /\ ~HasRestPhrase(probe.task))
    => /\ probe.analysis.projectType # "api"
       /\ "api" \notin probe.analysis.features

\* C16: for every analysis with hasFintech = true, analyzeDatabase
\* recommends PostgreSQL with a confidence strictly above the confidence
\* for the analysis that differs only in hasFintech = false.
C16_FintechConfidence ==
  (probe.fn = "analyzeDatabase" /\ probe.analysis.hasFintech) =>
    /\ probe.out.recommendation = "PostgreSQL"
    /\ probe.out.confidence >
         analyzeDatabase([probe.analysis EXCEPT !.hasFintech = FALSE]).confidence

\* C18: when the two candidates of an axis have equal scores the
\* first-listed one is recommended: PostgreSQL for the database, Node.js
\* with Express for the backend.
C18_TieGoesToFirst ==
  /\ (/\ probe.fn = "analyzeDatabase"
      /\ sqlScore(probe.analysis) = nosqlScore(probe.analysis))
       => probe.out.recommendation = "PostgreSQL"
  /\ (/\ probe.fn = "analyzeBackend"
      /\ nodejsScore(probe.analysis) = fastapiScore(probe.analysis))
       => probe.out.recommendation = "Node.js with Express"

\* The same text in the other letter case.
CaseVariant(t) == [t EXCEPT !.upper = ~t.upper]

\* C17: a text and its case variant get the same project type, features
\* and derived flags from analyzeTask, hasBackend included, and so the
\* same phase list for the task hash they share.
C17_CaseInsensitive ==
  probe.fn = "planTask" =>
    /\ generateTaskHash(CaseVariant(probe.task)) = generateTaskHash(probe.task)
    /\ analyzeTask(CaseVariant(probe.task)) = probe.analysis
    /\ PlanPhases(CaseVariant(probe.task)) = probe.phases

\* The batch call of plan p was rejected: the catch block has run.
BatchThrew(p) ==
  /\ variant = "batch"
  /\ run[p].pc = "done"
  /\ state[p].origin[1] = "error"

C20_BatchThrowHandled ==
  \A p \in Plans :
    BatchThrew(p) =>
      /\ \A i \in DOMAIN state[p].phaseStatuses :
           state[p].phaseStatuses[i] = "enhancement_failed"
      /\ state[p].current = state[p].total
      /\ state[p].isComplete
      /\ run[p].ret.returned /\ ~run[p].ret.threw /\ ~run[p].ret.complete
      /\ \A h \in Hashes : planStates[h] = p => StatusAnswer(h) = 200

\* The batch call of a plan of two phases was rejected and its status has
\* been polled since.
C20_Witness ==
  /\ status = 200
  /\ \E p \in Plans :
       /\ BatchThrew(p)
       /\ state[p].total > 1
       /\ \E h \in Hashes : planStates[h] = p

\* C21: in the sequential orchestrator phases are enhanced in pipeline
\* order, one at a time: a phase is enhancing only when every earlier
\* phase is enhanced or enhancement_failed, at most one phase is enhancing
\* at any moment, and progress.current counts only phases whose attempt
\* has finished.
C21_SequentialInOrder ==
  variant = "sequential" =>
    \A p \in Plans :
      LET ps == state[p].phaseStatuses
      IN  /\ \A i \in DOMAIN ps :
               ps[i] = "enhancing" => \A j \in 1 .. i - 1 : Terminal(ps[j])
          /\ Cardinality({i \in DOMAIN ps : ps[i] = "enhancing"}) <= 1
          /\ \A j \in 1 .. state[p].current : Terminal(ps[j])
          /\ \A i \in DOMAIN ps :
               Terminal(ps[i]) => state[p].current >= i

\* A sequential run over two phases stands between them: the first phase
\* is finished, the second is being enhanced, progress is at one.
C21_Witness ==
  /\ variant = "sequential"
  /\ \E p \in Plans :
       /\ state[p].total = 2
       /\ Terminal(state[p].phaseStatuses[1])
       /\ state[p].phaseStatuses[2] = "enhancing"
       /\ state[p].current = 1
       /\ call[p].pc = "main"

\* C22: an enhancePhase call that misses the cache follows the retry
\* protocol: at most maxAttempts main attempts, the repair call only after
\* the second failed attempt, the simplified-schema call only after the
\* third, at most maxAttempts + 2 model calls in all; a call that settles
\* with a main or repair response made no call after it, and the local
\* fallback comes only after all five calls.
C22_RetryProtocol ==
  \A c \in Calls :
    LET k == call[c]
    IN  /\ k.nModel <= maxAttempts + 2
        /\ k.pc = "main" =>
             \/ k.attempts < maxAttempts - 1 /\ k.nModel = k.attempts + 1
             \/ k.attempts = maxAttempts - 1 /\ k.nModel = maxAttempts + 1
        /\ k.pc = "repair" =>
             k.attempts = maxAttempts - 1 /\ k.nModel = maxAttempts
        /\ k.pc = "simple" =>
             k.attempts = maxAttempts /\ k.nModel = maxAttempts + 2
        /\ (Settled(c) /\ k.nModel > 0) =>
             CASE k.response.src = "main" ->
                    k.nModel \in (1 .. maxAttempts - 1) \cup {maxAttempts + 1}
               [] k.response.src = "repair" -> k.nModel = maxAttempts
               [] OTHER -> k.nModel = maxAttempts + 2

\* One call has ended with the local fallback after five model calls and
\* another with the answer of its repair call.
C22_Witness ==
  \E c, d \in Calls :
    /\ Settled(c) /\ call[c].response.src = "fallback" /\ call[c].nModel = 5
    /\ Settled(d) /\ call[d].response.src = "repair" /\ call[d].nModel = 3

\* The cache entries of service s for a key that are younger than 24h.
YoungEntries(s, key) ==
  {e \in cache[s] : e.key = key /\ now - e.timestamp < 24 * UnitsPerHour}

\* C23: enhancePhase on a service with a client answers from the cache,
\* without a model call, exactly when an entry for its key exists with
\* now - timestamp < 24h; otherwise it goes on to the gate and the model,
\* and when it resolves its result is in the cache under the key with the
\* timestamp of that moment.
C23_CacheExactly ==
  [][\A c \in Calls :
       /\ (call[c].pc = "idle" /\ call'[c].pc # "idle" /\ client[call'[c].svc]) =>
            IF YoungEntries(call'[c].svc, call'[c].key) # {}
              THEN /\ call'[c].pc = "resolved"
                   /\ call'[c].nModel = 0
                   /\ \E e \in YoungEntries(call'[c].svc, call'[c].key) :
                        call'[c].response = e.response
              ELSE call'[c].pc \in {"passed", "queued"}
       /\ (call[c].pc = "perfDone" /\ call'[c].pc # "perfDone") =>
            /\ call'[c].pc = "resolved"
            /\ call'[c].nModel > 0
            /\ [key |-> call[c].key, response |-> call[c].response,
                timestamp |-> now, ttl |-> 24 * UnitsPerHour]
                 \in cache'[call[c].svc]
            /\ \A e \in cache'[call[c].svc] :
                 e.key = call[c].key => e.timestamp = now]_vars

\* A call made once the entry written by an earlier call had expired:
\* it went to the model and its result is in the cache with the timestamp
\* of its resolution.
C23_Witness ==
  \E c, d \in Calls :
    /\ call[c].pc = "resolved" /\ call[c].nModel > 0
    /\ call[d].pc = "resolved" /\ call[d].nModel > 0
    /\ call[d].key = call[c].key
    /\ call[d].tStart >= call[c].tEnd + 24 * UnitsPerHour
    /\ \E e \in cache[1] : e.key = call[d].key /\ e.timestamp = call[d].tEnd

Holding(s) ==
  {c \in Calls : call[c].svc = s
                 /\ call[c].pc \in {"main", "repair", "simple", "perfDone"}}

InProgress(s) ==
  {c \in Calls : call[c].svc = s
                 /\ call[c].pc \in {"passed", "queued", "released", "main",
                                    "repair", "simple", "perfDone"}}

\* C25: activeRequests is never negative; it counts the calls that were
\* admitted and have not ended, each admitted call raising it once and
\* lowering it once whatever its enhancement ended with; it is 0 whenever
\* no enhancePhase call is in progress.
C25_CounterConserved ==
  \A s \in Services :
    /\ activeRequests[s] >= 0
    /\ activeRequests[s] = Cardinality(Holding(s))
    /\ InProgress(s) = {} => activeRequests[s] = 0

\* Every call has ended, one of them with the local fallback after its
\* model calls all failed, and the last caller went to the model too.
C25_Witness ==
  /\ InProgress(1) = {}
  /\ activeRequests[1] = 0
  /\ \A c \in 1 .. BurstCalls : call[c].pc = "resolved"
  /\ \E c \in Calls : call[c].response.src = "fallback" /\ call[c].nModel = 5
  /\ call[BurstCalls].nModel > 0

\* The calls of service s whose await of waitForSlot is about to resume.
AboutToBeAdmitted(s) ==
  {c \in Calls : call[c].svc = s /\ call[c].pc \in {"passed", "released"}}

\* C26: every enhancePhase call parked in the queue is eventually released,
\* admitted and resolved, given that every model call returns; and the
\* queue is never non-empty while no call is active or about to be
\* admitted.
C26_NoStrandedWaiter ==
  /\ [](\A s \in Services :
          requestQueue[s] # <<>> =>
            Holding(s) \cup AboutToBeAdmitted(s) # {})
  /\ \A c \in 1 .. WaitCalls :
       (call[c].pc = "queued") ~> (call[c].pc = "resolved" /\ call[c].nModel > 0)

\* Two calls that waited in the queue have been released, admitted and
\* resolved, and nothing is left running or waiting.
C26_Witness ==
  /\ activeRequests[1] = 0
  /\ requestQueue[1] = <<>>
  /\ \E c, d \in Calls :
       /\ c # d
       /\ call[c].waited /\ call[c].pc = "resolved" /\ call[c].nModel > 0
       /\ call[d].waited /\ call[d].pc = "resolved" /\ call[d].nModel > 0

\* The number of phases of state object p that are enhanced or
\* enhancement_failed.
Finished(p) ==
  Cardinality({i \in DOMAIN state[p].phaseStatuses :
                 Terminal(state[p].phaseStatuses[i])})

\* C27: in every state of a registered PlanEnhancementState progress.total
\* is the number of phases of the base plan, progress.current is the
\* number of phases that are enhanced or enhancement_failed, so that
\* 0 <= current <= total, current never decreases, and isComplete holds
\* only when every phase is in a terminal status.
C27_ProgressCounts ==
  /\ [](\A p \in Plans :
          /\ state[p].total = Len(state[p].phases)
          /\ state[p].current = Finished(p)
          /\ state[p].current >= 0 /\ state[p].current <= state[p].total
          /\ state[p].isComplete => Finished(p) = state[p].total)
  /\ [][\A p \in Plans : state'[p].current >= state[p].current]_vars

\* A status poll has answered while one plan of two phases stands between
\* its phases and another is complete.
C27_Witness ==
  /\ status = 200
  /\ \E p, q \in Plans :
       /\ state[p].total = 2 /\ state[p].current = 1 /\ ~state[p].isComplete
       /\ state[q].isComplete /\ state[q].current = state[q].total
       /\ state[q].total >= 2

\* C28: when generatePlan is called again for a hash whose earlier
\* background run is still in flight, a fresh state is registered in
\* place of the old one, and the new state changes only in steps of its
\* own run: nothing the earlier run completes is written into it.
C28_RegeneratedIsolated ==
  [][/\ nextPlan' # nextPlan =>
          /\ planStates'[state'[nextPlan].hash] = nextPlan
          /\ state'[nextPlan].current = 0
          /\ ~state'[nextPlan].isComplete
          /\ \A i \in DOMAIN state'[nextPlan].phaseStatuses :
               ~Terminal(state'[nextPlan].phaseStatuses[i])
     /\ \A q \in Plans :
          state'[q] # state[q] =>
            /\ run'[q] # run[q]
            /\ \A p \in Plans \ {q} : state'[p] = state[p]]_vars

\* A plan was generated again while the run of the earlier one was in
\* flight; the earlier run has completed since, and the new state, which
\* is the registered one, is still being enhanced.
C28_Witness ==
  \E q \in Plans :
    /\ state[q].replaced # NoPlan
    /\ planStates[state[q].hash] = q
    /\ state[state[q].replaced].isComplete
    /\ run[state[q].replaced].pc = "done"
    /\ run[q].pc \in {"await", "batch"}
    /\ ~state[q].isComplete
    /\ \A i \in DOMAIN state[q].phaseStatuses :
         ~Terminal(state[q].phaseStatuses[i])

\* C29: when two enhancePhase calls with the same cache key are in
\* progress on one service at the same time, the model is invoked for at
\* most one of them.
C29_OverlapOneModelCall ==
  \A s \in Services :
    \A c, d \in InProgress(s) :
      (c # d /\ call[c].key = call[d].key)
        => (call[c].nModel = 0 \/ call[d].nModel = 0)

\* C30: every response enhancePhase resolves with, and every response in
\* the cache, satisfies validateResponse, whether it came from a main
\* attempt, the repair call, the simplified-schema call or the fallback.
C30_EveryResponseValid ==
  /\ \A c \in Calls :
       call[c].pc = "resolved" => validateResponse(call[c].response)
  /\ \A s \in Services :
       \A e \in cache[s] : validateResponse(e.response)

====
